---- MODULE Spec2Model ----
(***************************************************************************)
(* Azure-SQL-MCP: the tool-dispatch and query-execution layer              *)
(* (src/src/azure_sql_mcp/server.py) and the connection provider           *)
(* (src/src/azure_sql_mcp/connector.py).                                   *)
(*                                                                         *)
(* The handlers are coroutines without a suspension point of their own     *)
(* (every pyodbc call blocks), so one tool call runs to completion before  *)
(* the next is dispatched: a call is one action.  What the database does   *)
(* at each driver call is the environment's choice (Outcome).              *)
(*                                                                         *)
(* pyodbc is modelled by its documented behaviour: leaving a `with` block  *)
(* on a pyodbc.Connection commits (normal exit) or rolls back (exception)  *)
(* and does NOT close the connection; a connection is closed by close()    *)
(* or when the object is finalized by the runtime.                         *)
(***************************************************************************)
EXTENDS Integers, Sequences, FiniteSets, TLC

VARIABLES
    env,                \* os.environ: the four AZURE_SQL_* variables
    phase,              \* "init" (importing), "running", "aborted"
    connection_string,  \* AzureSQLConnector.connection_string
    calls,              \* tool calls dispatched so far
    answered,           \* tool calls that returned one content block
    failedBefore,       \* some call before the latest returned a failure
    open,               \* connections opened and not yet closed
    last                \* the latest call: its input, driver calls, response

vars == <<env, phase, connection_string, calls, answered, failedBefore,
          open, last>>

(* ---------------------------------------------------------------- bounds *)
MaxCalls == 2

(* ------------------------------------------------------- python values   *)
\* A tool argument value: kind "absent" (key not in the mapping), "str",
\* "list" (v holds the items) or "int" (a non-sequence scalar).
Absent == [kind |-> "absent", v |-> <<>>]
StrVal(s) == [kind |-> "str", v |-> s]
ListVal(s) == [kind |-> "list", v |-> s]
IntVal == [kind |-> "int", v |-> <<>>]

\* arguments: dict | None.  isNone marks None; otherwise the mapping.
EmptyDict ==
    [isNone |-> FALSE, query |-> Absent, parameters |-> Absent,
     table_name |-> Absent, columns |-> Absent, values |-> Absent]
NoneArgs == [EmptyDict EXCEPT !.isNone = TRUE]

\* dict.get(key, default)
Get(arguments, key, default) ==
    IF arguments[key].kind = "absent" THEN default ELSE arguments[key]

(* ------------------------------------------------------- python strings  *)
\* A string is a sequence of one-character strings.
LowerTab == <<"a","b","c","d","e","f","g","h","i","j","k","l","m",
              "n","o","p","q","r","s","t","u","v","w","x","y","z">>
UpperTab == <<"A","B","C","D","E","F","G","H","I","J","K","L","M",
              "N","O","P","Q","R","S","T","U","V","W","X","Y","Z">>
Whitespace == {" ", "\t", "\n", "\r", "\f"}

\* str.upper()
UpperChar(c) ==
    IF \E i \in 1..26 : LowerTab[i] = c
    THEN UpperTab[CHOOSE i \in 1..26 : LowerTab[i] = c]
    ELSE c
Upper(s) == [i \in 1..Len(s) |-> UpperChar(s[i])]

\* str.strip()
Strip(s) ==
    LET idx == {i \in 1..Len(s) : s[i] \notin Whitespace}
    IN  IF idx = {} THEN <<>>
        ELSE LET lo == CHOOSE i \in idx : \A j \in idx : i <= j
                 hi == CHOOSE i \in idx : \A j \in idx : i >= j
             IN  SubSeq(s, lo, hi)

\* str.startswith(p)
StartsWith(s, p) == Len(s) >= Len(p) /\ SubSeq(s, 1, Len(p)) = p

kwSELECT == <<"S","E","L","E","C","T">>

\* the classification with the strip() forgotten
IsRowProducing_nostrip(query) == StartsWith(Upper(query), kwSELECT)

\* server.py:152  query.strip().upper().startswith("SELECT")
IsRowProducing(query) == StartsWith(Upper(Strip(query)), kwSELECT)

\* ", ".join(items)
RECURSIVE Join(_)
Join(items) ==
    IF Len(items) = 0 THEN <<>>
    ELSE IF Len(items) = 1 THEN <<items[1]>>
    ELSE <<items[1], ", ">> \o Join(Tail(items))

(* ------------------------------------------------------- environment     *)
\* os.getenv returns None for an unset variable.
PyNone == "<None>"
EnvKeys == {"AZURE_SQL_SERVER", "AZURE_SQL_DATABASE",
            "AZURE_SQL_USERNAME", "AZURE_SQL_PASSWORD"}
EnvValues == {PyNone, "", "x"}

\* Python truthiness of an Optional[str]
Truthy(v) == v # PyNone /\ v # ""

\* str(v) inside an f-string
Format(v) == IF v = PyNone THEN "None" ELSE v

\* What the driver does at each driver call of one tool call: the first
\* call that raises (fail_at), and whether Connection.__exit__ raises.
Stages == {"connect", "cursor", "execute", "fetch", "commit"}
Outcomes == [fail_at : Stages \cup {"none"}, exit : {"ok", "fail"}]

NoExc == ""
\* str(e) of the exception a driver call raises
Msg(op) ==
    CASE op = "connect" -> "pyodbc.Error: connect"
      [] op = "cursor"  -> "pyodbc.Error: cursor"
      [] op = "execute" -> "pyodbc.Error: execute"
      [] op = "fetch"   -> "pyodbc.Error: fetch"
      [] op = "commit"  -> "pyodbc.Error: commit"
      [] op = "TypeError" -> "TypeError: not iterable"
      [] OTHER          -> "pyodbc.Error: exit"

Ev(op, ok) == [op |-> op, ok |-> ok]

(* ------------------------------------------------------- connector.py    *)
NoConnectionString == [set |-> FALSE, text |-> <<>>]

\* setup_connection without the check of line 20, as in the stale copy
\* build/lib/your_mcp_server/azure_sql.py:15-32
setup_connection_unchecked(e) ==
    [raised |-> FALSE,
     connection_string |->
        [set |-> TRUE,
         text |-> <<"DRIVER={ODBC Driver 17 for SQL Server};",
                    "SERVER=", Format(e["AZURE_SQL_SERVER"]), ";",
                    "DATABASE=", Format(e["AZURE_SQL_DATABASE"]), ";",
                    "UID=", Format(e["AZURE_SQL_USERNAME"]), ";",
                    "PWD=", Format(e["AZURE_SQL_PASSWORD"]), ";",
                    "Encrypt=yes;", "TrustServerCertificate=no;",
                    "Connection Timeout=30;">>]]

\* connector.py:13-34  (raised: the ValueError of line 21)
setup_connection(e) ==
    IF ~(\A k \in EnvKeys : Truthy(e[k]))
    THEN [raised |-> TRUE, connection_string |-> NoConnectionString]
    ELSE [raised |-> FALSE,
          connection_string |->
             [set |-> TRUE,
              text |-> <<"DRIVER={ODBC Driver 17 for SQL Server};",
                         "SERVER=", Format(e["AZURE_SQL_SERVER"]), ";",
                         "DATABASE=", Format(e["AZURE_SQL_DATABASE"]), ";",
                         "UID=", Format(e["AZURE_SQL_USERNAME"]), ";",
                         "PWD=", Format(e["AZURE_SQL_PASSWORD"]), ";",
                         "Encrypt=yes;", "TrustServerCertificate=no;",
                         "Connection Timeout=30;">>]]

\* get_connection that tries pyodbc.connect a second time when it failed
get_connection_retry(cs, o) ==
    IF ~(cs.set /\ cs.text # <<>>)
    THEN [exc |-> "Connection string not configured", events |-> <<>>]
    ELSE IF o.fail_at = "connect"
         THEN [exc |-> NoExc,
               events |-> <<Ev("connect", FALSE), Ev("connect", TRUE)>>]
         ELSE [exc |-> NoExc, events |-> <<Ev("connect", TRUE)>>]

\* connector.py:36-45
get_connection(cs, o) ==
    IF ~(cs.set /\ cs.text # <<>>)
    THEN [exc |-> "Connection string not configured", events |-> <<>>]
    ELSE IF o.fail_at = "connect"
         THEN [exc |-> Msg("connect"), events |-> <<Ev("connect", FALSE)>>]
         ELSE [exc |-> NoExc, events |-> <<Ev("connect", TRUE)>>]

(* ------------------------------------------------------- with-block      *)
\* pyodbc.Connection.__exit__: commit when the block ended normally,
\* rollback when it ended by an exception; the connection stays open.
ConnectionExit(exc, o) ==
    LET op == IF exc = NoExc THEN "exit_commit" ELSE "exit_rollback"
    IN  IF o.exit = "fail"
        THEN [exc |-> Msg("exit"), events |-> <<Ev(op, FALSE)>>]
        ELSE [exc |-> exc, events |-> <<Ev(op, TRUE)>>]

\* The statements of a with-block body, run in order until one raises.
\* A step "TypeError" is a Python-level operation that always raises.
RunBody(steps, o) ==
    LET F == {i \in 1..Len(steps) :
                 steps[i] = o.fail_at \/ steps[i] = "TypeError"}
        f == IF F = {} THEN 0 ELSE CHOOSE i \in F : \A j \in F : i <= j
        n == IF f = 0 THEN Len(steps) ELSE f
    IN  [exc |-> IF f = 0 THEN NoExc ELSE Msg(steps[f]),
         events |-> [i \in 1..n |-> Ev(steps[i], i # f)]]

\* try: with connector.get_connection() as conn: <steps>
WithConnection(cs, steps, o) ==
    LET g == get_connection(cs, o)
    IN  IF g.exc # NoExc THEN g
        ELSE LET b == RunBody(steps, o)
                 x == ConnectionExit(b.exc, o)
             IN  [exc |-> x.exc, events |-> g.events \o b.events \o x.events]

(* ------------------------------------------------------- server.py tools *)
KnownTools == {"execute_query", "get_tables", "get_table_schema",
               "create_table", "insert_data"}

TextContent(text) == [type |-> "text", text |-> text]

\* What a handler hands back: a returned list of content blocks, or an
\* exception that left the handler (raised).
Return(text, w, stmt) ==
    [raised |-> FALSE, exc |-> w.exc, response |-> <<TextContent(text)>>,
     events |-> w.events, stmt |-> stmt]
Raise(msg) ==
    [raised |-> TRUE, exc |-> msg, response |-> <<>>,
     events |-> <<>>, stmt |-> <<>>]

\* arguments.get(...) on None raises AttributeError
AttributeError == "'NoneType' object has no attribute 'get'"

\* json.dumps(...) of the fetched rows
JsonRows == "json(rows)"

\* server.py:142-172
execute_query(cs, arguments, o) ==
    IF arguments.isNone THEN Raise(AttributeError)
    ELSE
    LET query == Get(arguments, "query", StrVal(<<>>))
        parameters == Get(arguments, "parameters", ListVal(<<>>))
        select == IsRowProducing(query.v)
        w == WithConnection(cs,
                 <<"cursor", "execute">>
                   \o (IF select THEN <<"fetch">> ELSE <<"commit">>), o)
    IN  IF w.exc # NoExc
        THEN Return(<<"Query execution failed: ", w.exc>>, w, query.v)
        ELSE IF select
             THEN Return(<<"Query executed successfully.", "\nResults:\n",
                           JsonRows>>, w, query.v)
             ELSE Return(<<"Query executed successfully.">>, w, query.v)

\* get_tables reporting its failure with execute_query's prefix
get_tables_wrongprefix(cs, o) ==
    LET stmt == <<"SELECT TABLE_NAME FROM INFORMATION_SCHEMA.TABLES ",
                  "WHERE TABLE_TYPE = 'BASE TABLE'">>
        w == WithConnection(cs, <<"cursor", "execute", "fetch">>, o)
    IN  IF w.exc # NoExc
        THEN Return(<<"Query execution failed: ", w.exc>>, w, stmt)
        ELSE Return(<<"Tables in database:\n", JsonRows>>, w, stmt)

\* server.py:174-191
get_tables(cs, o) ==
    LET stmt == <<"SELECT TABLE_NAME FROM INFORMATION_SCHEMA.TABLES ",
                  "WHERE TABLE_TYPE = 'BASE TABLE'">>
        w == WithConnection(cs, <<"cursor", "execute", "fetch">>, o)
    IN  IF w.exc # NoExc
        THEN Return(<<"Failed to get tables: ", w.exc>>, w, stmt)
        ELSE Return(<<"Tables in database:\n", JsonRows>>, w, stmt)

\* server.py:193-221
get_table_schema(cs, arguments, o) ==
    IF arguments.isNone THEN Raise(AttributeError)
    ELSE
    LET table_name == Get(arguments, "table_name", StrVal(<<>>))
        stmt == <<"SELECT COLUMN_NAME, DATA_TYPE, IS_NULLABLE, COLUMN_DEFAULT ",
                  "FROM INFORMATION_SCHEMA.COLUMNS WHERE TABLE_NAME = ? ",
                  "ORDER BY ORDINAL_POSITION">>
        w == WithConnection(cs, <<"cursor", "execute", "fetch">>, o)
    IN  IF w.exc # NoExc
        THEN Return(<<"Failed to get schema: ", w.exc>>, w, stmt)
        ELSE Return(<<"Schema for table '">> \o table_name.v
                       \o <<"':\n", JsonRows>>, w, stmt)

\* create_table with the conn.commit() of line 233 left out
create_table_nocommit(cs, arguments, o) ==
    IF arguments.isNone THEN Raise(AttributeError)
    ELSE
    LET table_name == Get(arguments, "table_name", StrVal(<<>>))
        columns == Get(arguments, "columns", StrVal(<<>>))
        query == <<"CREATE TABLE ">> \o table_name.v \o <<" (">>
                    \o columns.v \o <<")">>
        w == WithConnection(cs, <<"cursor", "execute">>, o)
    IN  IF w.exc # NoExc
        THEN Return(<<"Failed to create table: ", w.exc>>, w, query)
        ELSE Return(<<"Table '">> \o table_name.v
                       \o <<"' created successfully.">>, w, query)

\* server.py:223-240
create_table(cs, arguments, o) ==
    IF arguments.isNone THEN Raise(AttributeError)
    ELSE
    LET table_name == Get(arguments, "table_name", StrVal(<<>>))
        columns == Get(arguments, "columns", StrVal(<<>>))
        query == <<"CREATE TABLE ">> \o table_name.v \o <<" (">>
                    \o columns.v \o <<")">>
        w == WithConnection(cs, <<"cursor", "execute", "commit">>, o)
    IN  IF w.exc # NoExc
        THEN Return(<<"Failed to create table: ", w.exc>>, w, query)
        ELSE Return(<<"Table '">> \o table_name.v
                       \o <<"' created successfully.">>, w, query)

\* server.py:242-262
insert_data(cs, arguments, o) ==
    IF arguments.isNone THEN Raise(AttributeError)
    ELSE
    LET table_name == Get(arguments, "table_name", StrVal(<<>>))
        columns == Get(arguments, "columns", ListVal(<<>>))
        values == Get(arguments, "values", ListVal(<<>>))
        \* ", ".join(columns) and the comprehension over values raise
        \* TypeError on a value that is not iterable
        iterable == columns.kind # "int" /\ values.kind # "int"
        columns_str == Join(columns.v)
        placeholders == Join([i \in 1..Len(values.v) |-> "?"])
        query == IF iterable
                 THEN <<"INSERT INTO ">> \o table_name.v \o <<" (">>
                         \o columns_str \o <<") VALUES (">>
                         \o placeholders \o <<")">>
                 ELSE <<>>
        w == WithConnection(cs,
                 IF iterable THEN <<"cursor", "execute", "commit">>
                             ELSE <<"cursor", "TypeError">>, o)
    IN  IF w.exc # NoExc
        THEN Return(<<"Failed to insert data: ", w.exc>>, w, query)
        ELSE Return(<<"Data inserted into '">> \o table_name.v
                       \o <<"' successfully.">>, w, query)

\* handle_call_tool without the None guard of lines 121-122 and without
\* the try/except of lines 124, 137-139
handle_call_tool_nocatch(cs, name, arguments, o) ==
    CASE name = "execute_query" -> execute_query(cs, arguments, o)
      [] name = "get_tables" -> get_tables(cs, o)
      [] name = "get_table_schema" -> get_table_schema(cs, arguments, o)
      [] name = "create_table" -> create_table(cs, arguments, o)
      [] name = "insert_data" -> insert_data(cs, arguments, o)
      [] OTHER -> [raised |-> FALSE, exc |-> NoExc,
                   response |-> <<TextContent(<<"Unknown tool: ", name>>)>>,
                   events |-> <<>>, stmt |-> <<>>]

\* handle_call_tool whose final else runs the raw-SQL tool
handle_call_tool_fallthrough(cs, name, arguments0, o) ==
    LET arguments == IF arguments0.isNone THEN EmptyDict ELSE arguments0
    IN  CASE name = "get_tables" -> get_tables(cs, o)
          [] name = "get_table_schema" -> get_table_schema(cs, arguments, o)
          [] name = "create_table" -> create_table(cs, arguments, o)
          [] name = "insert_data" -> insert_data(cs, arguments, o)
          [] OTHER -> execute_query(cs, arguments, o)

\* server.py:118-139
handle_call_tool(cs, name, arguments0, o) ==
    LET arguments == IF arguments0.isNone THEN EmptyDict ELSE arguments0
        r == CASE name = "execute_query" -> execute_query(cs, arguments, o)
               [] name = "get_tables" -> get_tables(cs, o)
               [] name = "get_table_schema" -> get_table_schema(cs, arguments, o)
               [] name = "create_table" -> create_table(cs, arguments, o)
               [] name = "insert_data" -> insert_data(cs, arguments, o)
               [] OTHER -> [raised |-> FALSE, exc |-> NoExc,
                            response |-> <<TextContent(<<"Unknown tool: ", name>>)>>,
                            events |-> <<>>, stmt |-> <<>>]
    IN  IF r.raised
        THEN [r EXCEPT !.raised = FALSE,
                       !.response = <<TextContent(<<"Error: ", r.exc>>)>>]
        ELSE r

(* ------------------------------------------------------- database side   *)
\* The transaction of a call's connection after the driver calls in evs:
\* an executed statement is pending until a commit or rollback succeeds.
RECURSIVE TxnAfter(_, _)
TxnAfter(evs, t) ==
    IF evs = <<>> THEN t
    ELSE LET e == Head(evs)
             t2 == IF ~e.ok THEN t
                   ELSE IF e.op = "execute" THEN "pending"
                   ELSE IF e.op \in {"commit", "exit_commit"} /\ t = "pending"
                        THEN "committed"
                   ELSE IF e.op = "exit_rollback" /\ t = "pending"
                        THEN "rolledback"
                   ELSE t
         IN  TxnAfter(Tail(evs), t2)

Count(evs, op, oks) ==
    Cardinality({i \in 1..Len(evs) : evs[i].op = op /\ evs[i].ok \in oks})

(* ------------------------------------------------------- inputs          *)
ToolNames == KnownTools \cup {"drop_table", "EXECUTE_QUERY"}

kwselect == <<"s","e","l","e","c","t">>
Queries ==
    { kwSELECT \o <<" ","1">>,
      kwselect \o <<" ","1">>,
      <<" "," ","S","e","L","e","C","t">> \o <<" ","1">>,
      <<"\n","\t">> \o kwselect \o <<"\n">>,
      kwSELECT,
      <<"S","E","L","E","C">>,
      kwSELECT \o <<"E","D">>,
      <<"S"," ">> \o <<"E","L","E","C","T">>,
      <<"x">> \o kwSELECT,
      <<"(">> \o kwSELECT \o <<")">>,
      <<"W","I","T","H"," ","c">>,
      <<"I","N","S","E","R","T">>,
      <<" ","u","p","d","a","t","e">>,
      <<"D","E","L","E","T","E">>,
      <<"C","R","E","A","T","E">>,
      <<" ","\t">>,
      <<>> }

Lists == {<<"a">>, <<"a", "b">>}
SeqArgs == {Absent, IntVal} \cup {ListVal(l) : l \in Lists}
Names == {Absent, StrVal(<<"t">>)}

\* The arguments mappings a caller sends with tool `name`
ArgsFor(name) ==
    {NoneArgs, EmptyDict} \cup
    CASE name = "execute_query" ->
           {[EmptyDict EXCEPT !.query = StrVal(q)] : q \in Queries}
           \cup {[EmptyDict EXCEPT !.query = StrVal(kwSELECT \o <<" ","1">>),
                                   !.parameters = ListVal(<<"p">>)],
                 [EmptyDict EXCEPT !.parameters = ListVal(<<>>)]}
      [] name = "get_table_schema" ->
           {[EmptyDict EXCEPT !.table_name = StrVal(<<"t">>)]}
      [] name = "create_table" ->
           {[EmptyDict EXCEPT !.table_name = n, !.columns = c] :
               n \in Names, c \in {Absent, StrVal(<<"id INT">>)}}
      [] name = "insert_data" ->
           {[EmptyDict EXCEPT !.table_name = n, !.columns = c, !.values = v] :
               n \in Names, c \in SeqArgs, v \in SeqArgs}
      [] OTHER -> {[EmptyDict EXCEPT !.query = StrVal(kwSELECT)]}

\* The driver behaviours that make a difference to tool `name`: the driver
\* calls it makes, and __exit__ only when a connection was obtained.
OutcomesFor(name) ==
    IF name \notin KnownTools THEN {[fail_at |-> "none", exit |-> "ok"]}
    ELSE {o \in Outcomes :
            /\ o.fail_at = "connect" => o.exit = "ok"
            /\ o.fail_at = "fetch" =>
                  name \in {"execute_query", "get_tables", "get_table_schema"}
            /\ o.fail_at = "commit" =>
                  name \in {"execute_query", "create_table", "insert_data"}}

(* ------------------------------------------------------- state machine   *)
FailurePrefix(name) ==
    CASE name = "execute_query" -> "Query execution failed: "
      [] name = "get_tables" -> "Failed to get tables: "
      [] name = "get_table_schema" -> "Failed to get schema: "
      [] name = "create_table" -> "Failed to create table: "
      [] name = "insert_data" -> "Failed to insert data: "
      [] OTHER -> "Error: "
FailurePrefixes == {FailurePrefix(n) : n \in KnownTools} \cup {"Error: "}

\* a response whose payload communicates a failure
IsFailure(response) ==
    Len(response) = 1 /\ response[1].text[1] \in FailurePrefixes

NoCall ==
    [name |-> "", arguments |-> NoneArgs, raised |-> FALSE, response |-> <<>>,
     events |-> <<>>, stmt |-> <<>>, txn |-> "none"]

\* server.py:25 has not run yet: the module is being imported
Init ==
    /\ env \in [EnvKeys -> EnvValues]
    /\ phase = "init"
    /\ connection_string = NoConnectionString
    /\ calls = 0 /\ answered = 0 /\ failedBefore = FALSE
    /\ open = 0
    /\ last = NoCall

\* server.py:25  connector = AzureSQLConnector()   (connector.py:9-11)
Startup ==
    /\ phase = "init"
    /\ LET r == setup_connection(env)
       IN  /\ phase' = IF r.raised THEN "aborted" ELSE "running"
           /\ connection_string' = r.connection_string
    /\ UNCHANGED <<env, calls, answered, failedBefore, open, last>>

\* The transport delivers one tools/call request; handle_call_tool runs to
\* its return.
CallTool(name, arguments, o) ==
    /\ phase = "running"
    /\ calls < MaxCalls
    /\ \E r \in {handle_call_tool(connection_string, name, arguments, o)} :
           /\ calls' = calls + 1
           /\ answered' = answered +
                 (IF ~r.raised /\ Len(r.response) = 1 THEN 1 ELSE 0)
           /\ failedBefore' = (failedBefore \/ IsFailure(last.response))
           /\ open' = open + Count(r.events, "connect", {TRUE})
                            - Count(r.events, "close", {TRUE})
           /\ last' = [name |-> name, arguments |-> arguments,
                       raised |-> r.raised, response |-> r.response,
                       events |-> r.events, stmt |-> r.stmt,
                       txn |-> TxnAfter(r.events, "none")]
    /\ UNCHANGED <<env, phase, connection_string>>

\* The runtime finalizes a connection object nothing refers to any more,
\* which closes it.  No handler keeps a reference after it returns.
Finalize ==
    /\ open > 0
    /\ open' = open - 1
    /\ UNCHANGED <<env, phase, connection_string, calls, answered,
                   failedBefore, last>>

Next ==
    \/ Startup
    \/ \E name \in ToolNames : \E arguments \in ArgsFor(name) :
          \E o \in OutcomesFor(name) : CallTool(name, arguments, o)
    \/ Finalize

Spec == Init /\ [][Next]_vars

(* ======================================================= properties      *)
\* The latest call, as the handler saw its arguments.
Called == calls > 0
KnownCall == Called /\ last.name \in KnownTools
ArgOf(key) == IF last.arguments.isNone THEN Absent ELSE last.arguments[key]
Supplied(key) == ArgOf(key).kind # "absent"
Has(op, ok) == \E i \in 1..Len(last.events) : last.events[i] = Ev(op, ok)
Did(op) == Has(op, TRUE) \/ Has(op, FALSE)
TextOf(response) == response[1].text

\* The text, with leading whitespace skipped, starts with the letters
\* S-E-L-E-C-T, each in either case.
BeginsWithSelect(q) ==
    \E i \in 0..Len(q) :
        /\ \A j \in 1..i : q[j] \in Whitespace
        /\ i + 6 <= Len(q)
        /\ \A k \in 1..6 : q[i + k] \in {kwSELECT[k], kwselect[k]}

EffectOnlyCall ==
    /\ KnownCall
    /\ \/ last.name \in {"create_table", "insert_data"}
       \/ last.name = "execute_query" /\ ~BeginsWithSelect(ArgOf("query").v)

(* C1: after any finite sequence of tool calls, every connection a call    *)
(* opened has been closed: no connection remains open once the response    *)
(* of the call has been returned.                                          *)
C1_NoConnectionLeftOpen == open = 0

(* C2: an insert_data call whose column list and value list differ in      *)
(* length gets a failure payload, and cursor.execute is never invoked for  *)
(* it.                                                                     *)
C2_MismatchRejected ==
    ( /\ Called /\ last.name = "insert_data"
      /\ ArgOf("columns").kind = "list" /\ ArgOf("values").kind = "list"
      /\ Len(ArgOf("columns").v) # Len(ArgOf("values").v) )
    => (IsFailure(last.response) /\ ~Did("execute"))

(* C3: every tool call, for a known or unknown name, for any arguments     *)
(* (None included) and whatever driver call fails, returns exactly one     *)
(* text content block and raises nothing; the server keeps running, so     *)
(* every dispatched call has been answered.                                *)
C3_ExactlyOneResponse ==
    Called =>
        /\ ~last.raised
        /\ Len(last.response) = 1
        /\ last.response[1].type = "text"
        /\ answered = calls
        /\ phase = "running"

C3_Witness ==
    /\ calls >= 2 /\ failedBefore /\ answered = calls
    /\ last.arguments.isNone
    /\ IsFailure(last.response)

MissingRequired ==
    \/ last.name = "execute_query" /\ ~Supplied("query")
    \/ last.name = "get_table_schema" /\ ~Supplied("table_name")
    \/ last.name = "create_table"
         /\ (~Supplied("table_name") \/ ~Supplied("columns"))
    \/ last.name = "insert_data"
         /\ \/ ~Supplied("table_name")
            \/ ArgOf("columns").kind # "list"
            \/ ArgOf("values").kind # "list"

C5_MissingArgumentRejected ==
    (KnownCall /\ MissingRequired)
    => (IsFailure(last.response) /\ ~Did("execute"))

(* C6: once execute_query has executed its statement, it fetches rows and  *)
(* issues no commit of its own exactly when the text, trimmed of           *)
(* whitespace, begins with SELECT in any letter case; otherwise it commits *)
(* and fetches nothing.  Its success text carries the serialized rows in   *)
(* the first case and is the bare acknowledgment in the second.            *)
C6_Classification ==
    (Called /\ last.name = "execute_query" /\ Has("execute", TRUE)) =>
        LET rows == BeginsWithSelect(ArgOf("query").v)
        IN  /\ Did("fetch") <=> rows
            /\ Did("commit") <=> ~rows
            /\ ~IsFailure(last.response) =>
                  TextOf(last.response) =
                     IF rows
                     THEN <<"Query executed successfully.", "\nResults:\n",
                            JsonRows>>
                     ELSE <<"Query executed successfully.">>

C6_Witness ==
    /\ Called /\ last.name = "execute_query"
    /\ ArgOf("query").v = <<" "," ","S","e","L","e","C","t"," ","1">>
    /\ Has("fetch", TRUE) /\ ~Did("commit")
    /\ ~IsFailure(last.response)

(* C7: a call of a name that is none of the five tools returns the single  *)
(* text "Unknown tool: <name>" and does nothing else: no connection is     *)
(* acquired, no statement executed, no commit issued, no state changed.    *)
C7_UnknownTool ==
    [][ (calls' = calls + 1 /\ last'.name \notin KnownTools) =>
          /\ last'.response = <<TextContent(<<"Unknown tool: ", last'.name>>)>>
          /\ ~last'.raised
          /\ last'.events = <<>> /\ last'.stmt = <<>> /\ last'.txn = "none"
          /\ UNCHANGED <<open, env, phase, connection_string>> ]_vars

C7_Witness ==
    /\ Called /\ last.name = "EXECUTE_QUERY"
    /\ Supplied("query")
    /\ open = 1

(* C8: with any of the four options absent or empty, constructing the      *)
(* connector fails: the process never runs, no tool call is dispatched and *)
(* no connection is attempted; and a connection is only ever attempted     *)
(* with a connection string that is set.                                   *)
ConfigComplete == \A k \in EnvKeys : env[k] \notin {PyNone, ""}

C8_FailFast ==
    /\ ~ConfigComplete =>
          /\ phase \in {"init", "aborted"}
          /\ calls = 0 /\ open = 0 /\ last = NoCall
          /\ ~connection_string.set
    /\ phase = "running" => ConfigComplete
    /\ Did("connect") => (connection_string.set /\ connection_string.text # <<>>)

C8_Witness ==
    /\ phase = "aborted"
    /\ env["AZURE_SQL_PASSWORD"] = ""
    /\ \A k \in EnvKeys \ {"AZURE_SQL_PASSWORD"} : env[k] = "x"

(* C9: within one call of a known tool the connection is requested exactly *)
(* once and the statement executed at most once; a driver call that fails  *)
(* ends the call with a failure payload and is followed by no acquisition, *)
(* execution, fetch or commit (only by the rollback of leaving the         *)
(* with-block); a failed acquisition is followed by nothing at all.        *)
C9_NoRetry ==
    KnownCall =>
        LET evs == last.events
            n == Len(evs)
        IN  /\ Cardinality({i \in 1..n : evs[i].op = "connect"}) = 1
            /\ evs[1].op = "connect"
            /\ Cardinality({i \in 1..n : evs[i].op = "execute"}) <= 1
            /\ \A i \in 1..n : ~evs[i].ok =>
                  /\ IsFailure(last.response)
                  /\ \A j \in (i + 1)..n : evs[j].op = "exit_rollback"
            /\ Has("connect", FALSE) => evs = <<Ev("connect", FALSE)>>

C9_Witness ==
    /\ KnownCall /\ last.name = "insert_data"
    /\ last.events = <<Ev("connect", FALSE)>>
    /\ IsFailure(last.response)

(* C10: a known tool's call in which a driver call (or the building of the *)
(* statement) failed answers with that tool's own failure prefix followed  *)
(* by the message of the exception that ended it; a call in which nothing  *)
(* failed answers with a text that begins with no failure prefix.          *)
C10_FailurePrefixes ==
    KnownCall =>
        LET evs == last.events
            F == {i \in 1..Len(evs) : ~evs[i].ok}
            f == CHOOSE i \in F : \A j \in F : j <= i
            text == TextOf(last.response)
        IN  /\ F # {} =>
                  text = << CASE last.name = "execute_query" -> "Query execution failed: "
                              [] last.name = "get_tables" -> "Failed to get tables: "
                              [] last.name = "get_table_schema" -> "Failed to get schema: "
                              [] last.name = "create_table" -> "Failed to create table: "
                              [] last.name = "insert_data" -> "Failed to insert data: ",
                            Msg(evs[f].op) >>
            /\ F = {} =>
                  text[1] \notin {"Query execution failed: ", "Failed to get tables: ",
                                  "Failed to get schema: ", "Failed to create table: ",
                                  "Failed to insert data: ", "Error: "}

C10_Witness ==
    /\ KnownCall /\ last.name = "get_table_schema"
    /\ last.events = <<Ev("connect", TRUE), Ev("cursor", TRUE),
                       Ev("execute", TRUE), Ev("fetch", FALSE),
                       Ev("exit_rollback", TRUE)>>
    /\ TextOf(last.response) = <<"Failed to get schema: ", "pyodbc.Error: fetch">>

====
